---------------------------- MODULE Spec2Model ----------------------------
(***************************************************************************)
(* A model of the CanCan authorization rule engine (src/index.js).         *)
(*                                                                         *)
(* An engine owns one ability table: action name -> array of test          *)
(* closures.  allow/deny append closures, can folds over them, cannot and  *)
(* authorize wrap can, fluent() builds the two-step builder, and           *)
(* CanCan.combine concatenates the tables of several engines.              *)
(*                                                                         *)
(* JavaScript values are modelled as strings: "true", "false",             *)
(* "undefined", the Deny marker "Deny", and "truthy" for an object that is *)
(* neither true nor a Deny.  A thrown exception is the name of its kind    *)
(* ("TypeError", "Error", "AuthorizationError", "CustomError").            *)
(*                                                                         *)
(* Predicates and conditions are the functions of the test files           *)
(* (aUser, anAdminUser, publishedProducts); as their JSDoc type says, a    *)
(* callable one returns a boolean.  An argument may also be missing or be  *)
(* a value that is not a function ("notCallable").                         *)
(***************************************************************************)
EXTENDS Naturals, Sequences, FiniteSets

VARIABLES
    abilities,  \* engine -> (action name -> sequence of test closures)
    factory,    \* engine -> which createAuthorizationError it runs
    builder,    \* the fluent object the caller holds (closure of fluent())
    aliases,    \* <<e, f, action>>: e's and f's arrays for the action are
                \* one and the same array object
    last        \* the last call made and its outcome

vars == <<abilities, factory, builder, aliases, last>>

---------------------------------------------------------------------------
(* Bounds of the model                                                     *)

\* rules one engine's table may hold
MaxRules == 2

---------------------------------------------------------------------------
(* The values the calls are made with                                      *)

Engines == {"e1", "e2", "c"}

Actors == {"user", "admin"}
Targets == {"privateProduct", "publicProduct"}

\* The action names of the model.  "undefined" is the key an omitted
\* actions argument turns into; "constructor" is a member of
\* Object.prototype, which the table (an object literal) inherits.
RuleNames == {"read", "manage", "undefined"}
InheritedNames == {"constructor"}
Names == RuleNames \cup InheritedNames

NotCallable == "notCallable"
Omitted == "omitted"
Always == "always"
Predicates == {"aUser", "anAdminUser"}
Conditions == {"publishedProducts"}

aUser(user) == user \in Actors
anAdminUser(user) == aUser(user) /\ user = "admin"
publishedProducts(product) == product = "publicProduct"

\* predicate(actor)
CallPredicate(predicate, actor) ==
    IF predicate = "aUser" THEN aUser(actor) ELSE anAdminUser(actor)

\* condition(target, actor), for a callable condition
CallCondition(condition, target, actor) ==
    IF condition = Always THEN TRUE ELSE publishedProducts(target)

Bool(b) == IF b THEN "true" ELSE "false"

\* An actions argument: a single name (a string), a list of names (an
\* array) or nothing (undefined).
ActionName(x) == [kind |-> "name", name |-> x, list |-> <<>>]
ActionList(l) == [kind |-> "list", name |-> "", list |-> l]
NoActions == [kind |-> "omitted", name |-> "", list |-> <<>>]

\* [].concat(actions)
ConcatActions(actions) ==
    IF actions.kind = "name" THEN <<actions.name>>
    ELSE IF actions.kind = "list" THEN actions.list
    ELSE <<"undefined">>

\* !actions
ActionsFalsy(actions) == actions.kind = "omitted"

---------------------------------------------------------------------------
(* The ability table                                                       *)

\* this.abilities = {}: no action has an array yet (<<>> stands for a key
\* the object does not own; the code never stores an empty array).
EmptyAbilities == [action \in Names |-> <<>>]

\* The test closure allow (kind "allow") or deny (kind "deny") pushes.
TestClosure(kind, predicate, condition) ==
    [kind |-> kind, predicate |-> predicate, condition |-> condition]

\* Object.prototype.constructor, what abilities['constructor'] evaluates
\* to while the table owns no such key.
ObjectFunction == TestClosure("Object", "-", "-")

\* abilities[action] as [].concat and filter(Boolean) see it: the elements
\* of the owned array, the inherited member as one element, or nothing.
Property(abilitiesOf, action) ==
    IF abilitiesOf[action] # <<>> THEN abilitiesOf[action]
    ELSE IF action \in InheritedNames THEN <<ObjectFunction>>
    ELSE <<>>

\* abilities[action] || [] has a push method
CanPush(abilitiesOf, action) ==
    abilitiesOf[action] # <<>> \/ action \notin InheritedNames

RECURSIVE SumLen(_, _)
SumLen(abilitiesOf, names) ==
    IF names = {} THEN 0
    ELSE LET n == CHOOSE x \in names : TRUE
         IN  Len(abilitiesOf[n]) + SumLen(abilitiesOf, names \ {n})

\* the number of rules in a table
Size(abilitiesOf) == SumLen(abilitiesOf, Names)

---------------------------------------------------------------------------
(* Evaluation: can, cannot, authorize                                      *)

\* predicate(actor) && condition(target, actor); calling a condition that
\* is not a function throws a TypeError
PredicateAndCondition(test, actor, target) ==
    IF ~CallPredicate(test.predicate, actor) THEN "false"
    ELSE IF test.condition = NotCallable THEN "TypeError"
    ELSE Bool(CallCondition(test.condition, target, actor))

\* test(actor, target) for the closures of allow and of deny, and for the
\* inherited Object function, which returns an object
CallTest(test, actor, target) ==
    LET pass == PredicateAndCondition(test, actor, target)
    IN  IF test.kind = "Object" THEN "truthy"
        ELSE IF test.kind = "allow" THEN pass
        ELSE IF pass = "TypeError" THEN "TypeError"
        ELSE IF pass = "true" THEN "Deny" ELSE "false"

Truthy(v) == v \in {"true", "truthy", "Deny"}

\* the fold keeping only the last test's answer: a faulty variant that
\* forgets an earlier grant
reduceStepLastWins(pass, test, actor, target) ==
    IF pass = "Deny" THEN pass
    ELSE CallTest(test, actor, target)

\* the callback of tests.reduce: one step of the fold
reduceStep(pass, test, actor, target) ==
    IF pass = "Deny" THEN pass
    ELSE IF pass = "true"
         THEN LET r == CallTest(test, actor, target)
              IN  IF r = "TypeError" THEN r
                  ELSE IF Truthy(r) THEN r ELSE pass
    ELSE CallTest(test, actor, target)

\* tests.reduce(callback, false); an exception ends the fold
RECURSIVE reduce(_, _, _, _)
reduce(tests, pass, actor, target) ==
    IF tests = <<>> \/ pass = "TypeError" THEN pass
    ELSE reduce(Tail(tests), reduceStep(pass, Head(tests), actor, target),
                actor, target)

\* [].concat(abilities[action], abilities['manage']).filter(Boolean)
TestsFor(abilitiesOf, action) ==
    Property(abilitiesOf, action) \o Property(abilitiesOf, "manage")

\* the callback of every: the verdict of one action
canAction(abilitiesOf, actor, action, target) ==
    LET pass == reduce(TestsFor(abilitiesOf, action), "false", actor, target)
    IN  IF pass = "Deny" THEN "false" ELSE pass

\* every written as some: a faulty variant that is content with one
\* permitted action
RECURSIVE someAction(_, _, _, _)
someAction(abilitiesOf, actor, actions, target) ==
    IF actions = <<>> THEN "false"
    ELSE LET pass == canAction(abilitiesOf, actor, Head(actions), target)
         IN  IF pass = "TypeError" THEN pass
             ELSE IF Truthy(pass) THEN "true"
             ELSE someAction(abilitiesOf, actor, Tail(actions), target)

\* [...].every(callback): stops at the first falsy verdict
RECURSIVE every(_, _, _, _)
every(abilitiesOf, actor, actions, target) ==
    IF actions = <<>> THEN "true"
    ELSE LET pass == canAction(abilitiesOf, actor, Head(actions), target)
         IN  IF pass = "TypeError" THEN pass
             ELSE IF ~Truthy(pass) THEN "false"
             ELSE every(abilitiesOf, actor, Tail(actions), target)

can(abilitiesOf, actor, actions, target) ==
    every(abilitiesOf, actor, ConcatActions(actions), target)

\* cannot without its negation: a faulty variant
cannotUnnegated(abilitiesOf, actor, actions, target) ==
    can(abilitiesOf, actor, actions, target)

\* !this.can(actor, actions, target)
cannot(abilitiesOf, actor, actions, target) ==
    LET r == can(abilitiesOf, actor, actions, target)
    IN  IF r = "TypeError" THEN r ELSE Bool(r # "true")

NoError ==
    [name |-> "-", actor |-> "-", actions |-> NoActions, target |-> "-",
     plural |-> FALSE, joined |-> <<>>]

\* The default factory.  The message is `Action${plural} ${joined} not
\* permitted`: plural and the joined names stand for it.
createAuthorizationError(actor, actions, target) ==
    LET list == ConcatActions(actions)
    IN  [name |-> "AuthorizationError", actor |-> actor,
         actions |-> ActionList(list), target |-> target,
         plural |-> (Len(list) > 1), joined |-> list]

\* The factory of the subclass CanCan2 of the tests: an AuthError that
\* carries a message only.
customAuthorizationError(actor, actions, target) ==
    [name |-> "CustomError", actor |-> "undefined", actions |-> NoActions,
     target |-> "undefined", plural |-> FALSE, joined |-> ConcatActions(actions)]

\* authorize testing can where it should test cannot: a faulty variant
authorizeIfPermitted(abilitiesOf, factoryOf, actor, actions, target) ==
    LET r == can(abilitiesOf, actor, actions, target)
    IN  IF r = "TypeError" THEN [out |-> "TypeError", err |-> NoError]
        ELSE IF r = "true"
        THEN LET e == IF factoryOf = "default"
                      THEN createAuthorizationError(actor, actions, target)
                      ELSE customAuthorizationError(actor, actions, target)
             IN  [out |-> e.name, err |-> e]
        ELSE [out |-> "undefined", err |-> NoError]

\* authorize: what it returns or throws, and the error thrown
authorize(abilitiesOf, factoryOf, actor, actions, target) ==
    LET r == cannot(abilitiesOf, actor, actions, target)
    IN  IF r = "TypeError" THEN [out |-> "TypeError", err |-> NoError]
        ELSE IF r = "true"
        THEN LET e == IF factoryOf = "default"
                      THEN createAuthorizationError(actor, actions, target)
                      ELSE customAuthorizationError(actor, actions, target)
             IN  [out |-> e.name, err |-> e]
        ELSE [out |-> "undefined", err |-> NoError]

---------------------------------------------------------------------------
(* Registration: allow, deny, the fluent builder                           *)

\* The closure of fluent(): the engine (self), the predicate, allow or
\* deny, the latch of to (called), the flattened actions to captured, and
\* the latch of on/anything (finished).
NoBuilder ==
    [engine |-> "-", predicate |-> "-", kind |-> "-", called |-> FALSE,
     actions |-> <<>>, finished |-> FALSE]

fluent(engine, predicate, allowOrDeny) ==
    [engine |-> engine, predicate |-> predicate, kind |-> allowOrDeny,
     called |-> FALSE, actions |-> <<>>, finished |-> FALSE]

\* forEach putting each closure at the front of its array (unshift for
\* push): a faulty variant
RECURSIVE forEachUnshift(_, _, _)
forEachUnshift(abilitiesOf, actions, test) ==
    IF actions = <<>>
    THEN [out |-> "this", abilities |-> abilitiesOf, fluent |-> NoBuilder]
    ELSE IF ~CanPush(abilitiesOf, Head(actions))
    THEN [out |-> "TypeError", abilities |-> abilitiesOf, fluent |-> NoBuilder]
    ELSE forEachUnshift(
             [abilitiesOf EXCEPT ![Head(actions)] = <<test>> \o @],
             Tail(actions), test)

\* [].concat(actions).forEach(...): one closure pushed per name, in order.
\* abilities[action] || [] is the inherited member for a name of
\* Object.prototype, which has no push: the loop stops there with a
\* TypeError and keeps what it pushed before.
RECURSIVE forEachPush(_, _, _)
forEachPush(abilitiesOf, actions, test) ==
    IF actions = <<>>
    THEN [out |-> "this", abilities |-> abilitiesOf, fluent |-> NoBuilder]
    ELSE IF ~CanPush(abilitiesOf, Head(actions))
    THEN [out |-> "TypeError", abilities |-> abilitiesOf, fluent |-> NoBuilder]
    ELSE forEachPush(
             [abilitiesOf EXCEPT ![Head(actions)] = Append(@, test)],
             Tail(actions), test)

\* condition || function () { return true }
ConditionOrDefault(condition) ==
    IF condition = Omitted THEN Always ELSE condition

\* Register returning the builder whenever the actions are left out,
\* whatever the condition: a faulty variant
RegisterFluentIfNoActions(kind, self, abilitiesOf, predicate, actions, condition) ==
    IF predicate = NotCallable
    THEN [out |-> "TypeError", abilities |-> abilitiesOf, fluent |-> NoBuilder]
    ELSE IF ActionsFalsy(actions)
    THEN [out |-> "fluent", abilities |-> abilitiesOf,
          fluent |-> fluent(self, predicate, kind)]
    ELSE forEachPush(abilitiesOf, ConcatActions(actions),
                     TestClosure(kind, predicate, ConditionOrDefault(condition)))

\* Register looking at the predicate only after the builder was handed
\* out: a faulty variant
RegisterCheckingPredicateLate(kind, self, abilitiesOf, predicate, actions, condition) ==
    IF ActionsFalsy(actions) /\ condition = Omitted
    THEN [out |-> "fluent", abilities |-> abilitiesOf,
          fluent |-> fluent(self, predicate, kind)]
    ELSE IF predicate = NotCallable
    THEN [out |-> "TypeError", abilities |-> abilitiesOf, fluent |-> NoBuilder]
    ELSE forEachPush(abilitiesOf, ConcatActions(actions),
                     TestClosure(kind, predicate, ConditionOrDefault(condition)))

\* The body shared by allow and deny, which differ in the closure pushed
\* and in the method handed to fluent.  out is "this", "fluent" (the
\* builder is returned) or the exception thrown.
Register(kind, self, abilitiesOf, predicate, actions, condition) ==
    IF predicate = NotCallable
    THEN [out |-> "TypeError", abilities |-> abilitiesOf, fluent |-> NoBuilder]
    ELSE IF ActionsFalsy(actions) /\ condition = Omitted
    THEN [out |-> "fluent", abilities |-> abilitiesOf,
          fluent |-> fluent(self, predicate, kind)]
    ELSE forEachPush(abilitiesOf, ConcatActions(actions),
                     TestClosure(kind, predicate, ConditionOrDefault(condition)))

allow(self, abilitiesOf, predicate, actions, condition) ==
    Register("allow", self, abilitiesOf, predicate, actions, condition)

deny(self, abilitiesOf, predicate, actions, condition) ==
    Register("deny", self, abilitiesOf, predicate, actions, condition)

\* allowOrDeny.call(self, predicate, actions, condition)
allowOrDeny(kind, self, abilitiesOf, predicate, actions, condition) ==
    IF kind = "allow"
    THEN allow(self, abilitiesOf, predicate, actions, condition)
    ELSE deny(self, abilitiesOf, predicate, actions, condition)

\* fluent.to(...actions): what it returns or throws, and the closure after
to(b, actions) ==
    IF b.called THEN [out |-> "Error", builder |-> b]
    ELSE [out |-> "ender",
          builder |-> [b EXCEPT !.called = TRUE, !.actions = actions,
                                !.finished = FALSE]]

\* ender.anything().  Before to the caller holds no ender: the fluent
\* object has no such method and the call is a TypeError.
anything(b, abilitiesOf) ==
    IF ~b.called
    THEN [out |-> "TypeError", builder |-> b, abilities |-> abilitiesOf]
    ELSE IF b.finished
    THEN [out |-> "Error", builder |-> b, abilities |-> abilitiesOf]
    ELSE LET r == allowOrDeny(b.kind, b.engine, abilitiesOf, b.predicate,
                              ActionList(b.actions), Always)
         IN  [out |-> r.out, builder |-> [b EXCEPT !.finished = TRUE],
              abilities |-> r.abilities]

\* on setting its latch only once the condition was accepted: a faulty
\* variant that leaves the builder usable after a failed on
onLatchingOnSuccess(b, abilitiesOf, condition) ==
    IF ~b.called
    THEN [out |-> "TypeError", builder |-> b, abilities |-> abilitiesOf]
    ELSE IF b.finished
    THEN [out |-> "Error", builder |-> b, abilities |-> abilitiesOf]
    ELSE IF condition \in Conditions
    THEN LET r == allowOrDeny(b.kind, b.engine, abilitiesOf, b.predicate,
                              ActionList(b.actions), condition)
         IN  [out |-> r.out, builder |-> [b EXCEPT !.finished = TRUE],
              abilities |-> r.abilities]
    ELSE [out |-> "Error", builder |-> b, abilities |-> abilitiesOf]

\* ender.on(condition)
on(b, abilitiesOf, condition) ==
    IF ~b.called
    THEN [out |-> "TypeError", builder |-> b, abilities |-> abilitiesOf]
    ELSE IF b.finished
    THEN [out |-> "Error", builder |-> b, abilities |-> abilitiesOf]
    ELSE IF condition \in Conditions
    THEN LET r == allowOrDeny(b.kind, b.engine, abilitiesOf, b.predicate,
                              ActionList(b.actions), condition)
         IN  [out |-> r.out, builder |-> [b EXCEPT !.finished = TRUE],
              abilities |-> r.abilities]
    ELSE [out |-> "Error", builder |-> [b EXCEPT !.finished = TRUE],
          abilities |-> abilitiesOf]

\* CanCan.combine(...canCans): the reduce over the engines given
RECURSIVE combineReduce(_, _, _)
combineReduce(acc, all, canCans) ==
    IF canCans = <<>> THEN acc
    ELSE combineReduce(
             [action \in Names |->
                 IF all[Head(canCans)][action] = <<>> THEN acc[action]
                 ELSE acc[action] \o all[Head(canCans)][action]],
             all, Tail(canCans))

\* combine putting each engine's rules before those gathered so far: a
\* faulty variant
RECURSIVE prependReduce(_, _, _)
prependReduce(acc, all, canCans) ==
    IF canCans = <<>> THEN acc
    ELSE prependReduce(
             [action \in Names |-> all[Head(canCans)][action] \o acc[action]],
             all, Tail(canCans))

combinePrepending(all, canCans) == prependReduce(EmptyAbilities, all, canCans)

combine(all, canCans) == combineReduce(EmptyAbilities, all, canCans)

\* combine storing an input's own array where the new table has none yet
\* for the action (abilities[action] = abilities[action] ?
\* abilities[action].concat(...) : canCan.abilities[action]): a faulty
\* variant in which the new engine shares the arrays that only one of the
\* engines given contributes to
combineWithoutCopy(all, canCans) ==
    {<<canCans[k], action>> : k \in 1..Len(canCans), action \in Names} \cap
    {x \in Engines \X Names :
        /\ all[x[1]][x[2]] # <<>>
        /\ \A j \in 1..Len(canCans) :
              all[canCans[j]][x[2]] # <<>> => canCans[j] = x[1]
        /\ Cardinality({j \in 1..Len(canCans) : canCans[j] = x[1]}) = 1}

\* The arrays of the new table that are arrays of an engine given, as
\* <<engine, action>>.  (abilities[action] || []).concat(...) returns a
\* new array every time, also for a single engine: there are none.
combineShares(all, canCans) == {}

\* abilities[action] = tests, after tests.push: the table of the engine
\* takes its new arrays, and an array that is also an array of another
\* engine has grown there too
Store(all, aliased, self, abilitiesOf) ==
    [e \in Engines |->
        IF e = self THEN abilitiesOf
        ELSE [action \in Names |->
                 IF <<e, self, action>> \in aliased
                     \/ <<self, e, action>> \in aliased
                 THEN abilitiesOf[action]
                 ELSE all[e][action]]]

---------------------------------------------------------------------------
(* The state machine                                                       *)

\* the record of a call: the method, the engine it was called on, the
\* predicate given and whether the actions were a name, a list or omitted
\* (registrations), the engines given (combine) and what the call returned
\* or threw
Call(op, engine, predicate, actions, inputs, out) ==
    [op |-> op, engine |-> engine, predicate |-> predicate,
     actions |-> actions, inputs |-> inputs, out |-> out]

\* the action lists calls are made with
Lists ==
    {<<>>, <<"read">>, <<"read", "manage">>, <<"manage", "read">>,
     <<"read", "read">>, <<"read", "constructor">>, <<"constructor", "read">>}
ActionArgs ==
    {ActionName(x) : x \in {"read", "manage", "constructor"}}
        \cup {ActionList(l) : l \in Lists}
PredicateArgs == {"anAdminUser", NotCallable}
ConditionArgs == Conditions \cup {Omitted, NotCallable}

\* new CanCan() for every engine; e1 may be an instance of the subclass
\* that overrides createAuthorizationError
Init ==
    /\ abilities = [e \in Engines |-> EmptyAbilities]
    /\ factory \in [Engines -> {"default", "custom"}]
    /\ factory["e2"] = "default"
    /\ factory["c"] = "default"
    /\ builder = NoBuilder
    /\ aliases = {}
    /\ last = Call("new", "-", "-", "-", <<>>, "-")

\* every engine an instance of CanCan itself
InitPlain == Init /\ factory["e1"] = "default"

\* engine.allow(predicate, actions, condition) or engine.deny(...)
CallAllowOrDeny(kind, e, predicate, actions, condition) ==
    LET r == allowOrDeny(kind, e, abilities[e], predicate, actions, condition)
    IN  /\ Size(r.abilities) <= MaxRules
        /\ abilities' = Store(abilities, aliases, e, r.abilities)
        /\ builder' = IF r.out = "fluent" THEN r.fluent ELSE builder
        /\ last' = Call(kind, e, predicate, actions.kind, <<>>, r.out)
        /\ UNCHANGED <<factory, aliases>>

CallAllow(e, predicates, actionArgs, conditions) ==
    \E predicate \in predicates, actions \in actionArgs,
       condition \in conditions :
        CallAllowOrDeny("allow", e, predicate, actions, condition)

CallDeny(e, predicates, actionArgs, conditions) ==
    \E predicate \in predicates, actions \in actionArgs,
       condition \in conditions :
        CallAllowOrDeny("deny", e, predicate, actions, condition)

CallCan(e, actionArgs) ==
    \E actor \in Actors, actions \in actionArgs, target \in Targets :
        /\ last' = Call("can", e, "-", "-", <<>>,
                        can(abilities[e], actor, actions, target))
        /\ UNCHANGED <<abilities, factory, builder, aliases>>

CallCannot(e, actionArgs) ==
    \E actor \in Actors, actions \in actionArgs, target \in Targets :
        /\ last' = Call("cannot", e, "-", "-", <<>>,
                        cannot(abilities[e], actor, actions, target))
        /\ UNCHANGED <<abilities, factory, builder, aliases>>

CallAuthorize(e, actionArgs) ==
    \E actor \in Actors, actions \in actionArgs, target \in Targets :
        /\ last' = Call("authorize", e, "-", "-", <<>>,
                        authorize(abilities[e], factory[e], actor, actions,
                                  target).out)
        /\ UNCHANGED <<abilities, factory, builder, aliases>>

\* builder.to(...actions), on the fluent object the caller holds
CallTo(lists) ==
    \E actions \in lists :
        LET r == to(builder, actions)
        IN  /\ builder.engine # "-"
            /\ builder' = r.builder
            /\ last' = Call("to", builder.engine, builder.predicate, "-", <<>>,
                            r.out)
            /\ UNCHANGED <<abilities, factory, aliases>>

CallAnything ==
    LET r == anything(builder, abilities[builder.engine])
    IN  /\ builder.engine # "-"
        /\ Size(r.abilities) <= MaxRules
        /\ builder' = r.builder
        /\ abilities' = Store(abilities, aliases, builder.engine, r.abilities)
        /\ last' = Call("anything", builder.engine, builder.predicate, "-",
                        <<>>, r.out)
        /\ UNCHANGED <<factory, aliases>>

CallOn(conditions) ==
    \E condition \in conditions :
        LET r == on(builder, abilities[builder.engine], condition)
        IN  /\ builder.engine # "-"
            /\ Size(r.abilities) <= MaxRules
            /\ builder' = r.builder
            /\ abilities' = Store(abilities, aliases, builder.engine,
                                  r.abilities)
            /\ last' = Call("on", builder.engine, builder.predicate, "-",
                            <<>>, r.out)
            /\ UNCHANGED <<factory, aliases>>

\* c = CanCan.combine(...canCans): a new engine, with the default factory;
\* the engine c named before is dropped
CallCombine(inputLists) ==
    \E canCans \in inputLists :
        /\ abilities' = [abilities EXCEPT !["c"] = combine(abilities, canCans)]
        /\ aliases' = {a \in aliases : a[1] # "c" /\ a[2] # "c"}
                        \cup {<<"c", x[1], x[2]>> :
                                 x \in combineShares(abilities, canCans)}
        /\ factory' = [factory EXCEPT !["c"] = "default"]
        /\ last' = Call("combine", "c", "-", "-", canCans, "this")
        /\ UNCHANGED builder

\* One engine: direct registrations and the three queries.
Next ==
    \/ CallAllow("e1", PredicateArgs, ActionArgs, ConditionArgs)
    \/ CallDeny("e1", PredicateArgs, ActionArgs, ConditionArgs)
    \/ CallCan("e1", ActionArgs)
    \/ CallCannot("e1", ActionArgs)
    \/ CallAuthorize("e1", ActionArgs)

Spec == Init /\ [][Next]_vars

\* One engine and the fluent builder: allow(predicate) and deny(predicate)
\* with the actions left out, then to, on and anything.
FluentLists ==
    {<<>>, <<"read">>, <<"read", "manage">>, <<"constructor">>,
     <<"read", "constructor">>}

NextFluent ==
    \/ CallAllow("e1", Predicates \cup {NotCallable}, {NoActions},
                 {Omitted, "publishedProducts"})
    \/ CallDeny("e1", Predicates \cup {NotCallable}, {NoActions},
                {Omitted, "publishedProducts"})
    \/ CallTo(FluentLists)
    \/ CallOn(ConditionArgs)
    \/ CallAnything

SpecFluent == InitPlain /\ [][NextFluent]_vars

\* Two engines and the engine combine makes of them.
CombineInputs ==
    {<<>>, <<"e1">>, <<"e2">>, <<"e1", "e2">>, <<"e2", "e1">>, <<"e1", "e1">>}
CombineActions == {ActionName("read"), ActionName("manage")}

NextCombine ==
    \/ \E e \in Engines :
          CallAllow(e, {"anAdminUser"}, CombineActions, {Omitted})
    \/ \E e \in Engines :
          CallDeny(e, {"anAdminUser"}, {ActionName("read")}, {Omitted})
    \/ CallCombine(CombineInputs)
    \/ CallCan("c", CombineActions)

SpecCombine == InitPlain /\ [][NextCombine]_vars

---------------------------------------------------------------------------
(* Vocabulary of the claims                                                *)

\* the table of the engine the calls of Spec are made on
Table == abilities["e1"]

\* A rule matches: its actor predicate holds for the actor and its
\* condition holds for the target.
Matches(test, actor, target) ==
    /\ CallPredicate(test.predicate, actor)
    /\ test.condition # NotCallable
    /\ CallCondition(test.condition, target, actor)

\* A rule does not match: its predicate is false for the actor or its
\* condition is false for the target.
Misses(test, actor, target) ==
    \/ ~CallPredicate(test.predicate, actor)
    \/ /\ test.condition # NotCallable
       /\ ~CallCondition(test.condition, target, actor)

\* some rule of the kind registered under x or under "manage" matches
HasMatching(kind, abilitiesOf, x, actor, target) ==
    \E n \in {x, "manage"} : \E i \in 1..Len(abilitiesOf[n]) :
        /\ abilitiesOf[n][i].kind = kind
        /\ Matches(abilitiesOf[n][i], actor, target)

\* every condition stored in the table is a function
AllCallable(abilitiesOf) ==
    \A n \in Names : \A i \in 1..Len(abilitiesOf[n]) :
        abilitiesOf[n][i].condition # NotCallable

\* the table without the i-th rule of action n
RemoveRule(abilitiesOf, n, i) ==
    [abilitiesOf EXCEPT ![n] =
        SubSeq(@, 1, i - 1) \o SubSeq(@, i + 1, Len(@))]

---------------------------------------------------------------------------
(* C1: deny always wins                                                    *)

\* C1: whenever a Revoke rule registered under x or under "manage"
\* matches the actor and the target, can(actor, x, target) is false.
DenyAlwaysWins ==
    \A actor \in Actors, target \in Targets, x \in Names :
        HasMatching("deny", Table, x, actor, target)
            => can(Table, actor, ActionName(x), target) = "false"

\* With a matching Revoke rule can never answers true: it answers false
\* or, when a rule with a condition that is no function is called before
\* the Revoke rule is reached, it throws.
DenyNeverPermits ==
    \A actor \in Actors, target \in Targets, x \in Names :
        HasMatching("deny", Table, x, actor, target)
            => /\ can(Table, actor, ActionName(x), target) # "true"
               /\ AllCallable(Table)
                    => can(Table, actor, ActionName(x), target) = "false"

---------------------------------------------------------------------------
(* C2: wildcard grant                                                      *)

\* C2: if a Grant rule under "manage" matches and no Revoke rule under x
\* or "manage" matches, can(actor, x, target) is true, for every name x.
WildcardGrant ==
    \A actor \in Actors, target \in Targets, x \in Names :
        /\ \E i \in 1..Len(Table["manage"]) :
              /\ Table["manage"][i].kind = "allow"
              /\ Matches(Table["manage"][i], actor, target)
        /\ ~HasMatching("deny", Table, x, actor, target)
        => can(Table, actor, ActionName(x), target) = "true"

\* the same on the tables whose conditions are all functions
WildcardGrantWhenCallable ==
    AllCallable(Table) => WildcardGrant

---------------------------------------------------------------------------
(* C3: default deny                                                        *)

\* C3: can(actor, x, target) is false whenever no Grant rule registered
\* under x or under "manage" matches.
DefaultDeny ==
    \A actor \in Actors, target \in Targets, x \in Names :
        ~HasMatching("allow", Table, x, actor, target)
            => can(Table, actor, ActionName(x), target) = "false"

\* the same for the names Object.prototype does not define, on the tables
\* whose conditions are all functions
DefaultDenyOwnNames ==
    \A actor \in Actors, target \in Targets, x \in RuleNames :
        AllCallable(Table) /\ ~HasMatching("allow", Table, x, actor, target)
            => can(Table, actor, ActionName(x), target) = "false"

---------------------------------------------------------------------------
(* C4: a rule that does not match has no effect                            *)

NoEffectOn(actionArgs) ==
    \A actor \in Actors, target \in Targets, actions \in actionArgs :
        \A n \in Names : \A i \in 1..Len(Table[n]) :
            Misses(Table[n][i], actor, target)
                => can(Table, actor, actions, target)
                    = can(RemoveRule(Table, n, i), actor, actions, target)

\* C4: if a registered rule does not match the query, can returns the
\* same verdict as on the table with that rule removed.
MissingRuleHasNoEffect == NoEffectOn(ActionArgs)

\* the same for the queries that name no member of Object.prototype
MissingRuleHasNoEffectOwnNames ==
    NoEffectOn({a \in ActionArgs :
                   \A k \in 1..Len(ConcatActions(a)) :
                       ConcatActions(a)[k] \in RuleNames})

---------------------------------------------------------------------------
(* C5: several actions                                                     *)

\* can(actor, x1, target) && can(actor, x2, target) && ... as JavaScript
\* evaluates it: from the left, stopping at the first operand that is not
\* true (it is false, or the call throws); true for no operand.
RECURSIVE AndOfSingles(_, _, _, _)
AndOfSingles(abilitiesOf, actor, names, target) ==
    IF names = <<>> THEN "true"
    ELSE LET r == can(abilitiesOf, actor, ActionName(Head(names)), target)
         IN  IF r = "true"
             THEN AndOfSingles(abilitiesOf, actor, Tail(names), target)
             ELSE r

\* C5: can on a list of names is the logical AND of can on each name (so
\* true exactly when every name alone is permitted, and true for the empty
\* list), and a single name behaves as the one-element list.
MultiActionConjunction ==
    \A actor \in Actors, target \in Targets :
        /\ \A l \in Lists :
            LET r == can(Table, actor, ActionList(l), target)
            IN  /\ r = AndOfSingles(Table, actor, l, target)
                /\ r = "true" <=>
                     \A k \in 1..Len(l) :
                         can(Table, actor, ActionName(l[k]), target) = "true"
                /\ l = <<>> => r = "true"
        /\ \A x \in Names :
            can(Table, actor, ActionName(x), target)
                = can(Table, actor, ActionList(<<x>>), target)

\* can was called on a table where a list query is refused although its
\* first name alone is permitted
MultiActionWitness ==
    /\ last.op = "can"
    /\ last.out = "false"
    /\ \E actor \in Actors, target \in Targets :
        /\ can(Table, actor, ActionList(<<"read", "manage">>), target) = "false"
        /\ can(Table, actor, ActionName("read"), target) = "true"
        /\ can(Table, actor, ActionName("manage"), target) = "false"

---------------------------------------------------------------------------
(* C6: cannot is the negation of can                                       *)

\* C6: for every actor, action list and target, cannot returns true where
\* can returns false and false where can returns true (and throws where
\* can throws).
CannotIsNegation ==
    \A actor \in Actors, target \in Targets, actions \in ActionArgs :
        LET c == can(Table, actor, actions, target)
            n == cannot(Table, actor, actions, target)
        IN  /\ c = "true" <=> n = "false"
            /\ c = "false" <=> n = "true"
            /\ c = "TypeError" <=> n = "TypeError"

\* cannot was called and returned false: the query is permitted
CannotWitness ==
    /\ last.op = "cannot"
    /\ last.out = "false"
    /\ \E actor \in Actors, target \in Targets :
        can(Table, actor, ActionName("read"), target) = "true"

---------------------------------------------------------------------------
(* C7: authorize raises exactly when can is false                          *)

Raised(out) == out \in {"AuthorizationError", "CustomError"}

AuthorizeOutcome ==
    \A actor \in Actors, target \in Targets, actions \in ActionArgs :
        LET c == can(Table, actor, actions, target)
            d == authorize(Table, "default", actor, actions, target).out
            o == authorize(Table, "custom", actor, actions, target).out
        IN  /\ Raised(d) <=> c = "false"
            /\ Raised(o) <=> c = "false"
            /\ c = "true" => d = "undefined" /\ o = "undefined"

\* C7: authorize raises an authorization error iff can is false, and
\* returns nothing when can is true, whichever error factory is installed;
\* a call of authorize leaves the ability table unchanged.
AuthorizeRaisesIffDenied ==
    /\ []AuthorizeOutcome
    /\ [][last'.op = "authorize" => abilities' = abilities]_vars

\* authorize raised the error of an overridden factory on a table with rules
AuthorizeWitness ==
    /\ last.op = "authorize"
    /\ last.out = "CustomError"
    /\ Size(Table) > 0
    /\ \E actor \in Actors, target \in Targets :
        authorize(Table, "custom", actor, ActionName("read"), target).out
            = "undefined"

---------------------------------------------------------------------------
(* C8: the fields of the default error                                     *)

\* C8: when authorize fails with the default factory, the error's actor,
\* actions and target are equal to the arguments authorize was called
\* with, for a single action name and for a list of names.
ErrorCarriesArguments ==
    \A actor \in Actors, target \in Targets, actions \in ActionArgs :
        LET r == authorize(Table, "default", actor, actions, target)
        IN  r.out = "AuthorizationError"
                => /\ r.err.actor = actor
                   /\ r.err.actions = actions
                   /\ r.err.target = target

\* what the code does: actions is the argument as [].concat leaves it, so
\* equal to a list argument and a one-element list for a single name
ErrorCarriesNormalisedActions ==
    \A actor \in Actors, target \in Targets, actions \in ActionArgs :
        LET r == authorize(Table, "default", actor, actions, target)
        IN  r.out = "AuthorizationError"
                => /\ r.err.actor = actor
                   /\ r.err.actions = ActionList(ConcatActions(actions))
                   /\ r.err.target = target
                   /\ actions.kind = "list" => r.err.actions = actions

---------------------------------------------------------------------------
(* C9: combine                                                             *)

\* e1's rules for the action, then e2's, ..., then en's
RECURSIVE ConcatenationOf(_, _, _)
ConcatenationOf(all, canCans, action) ==
    IF canCans = <<>> THEN <<>>
    ELSE all[Head(canCans)][action]
            \o ConcatenationOf(all, Tail(canCans), action)

\* C9: combine(e1, ..., en) gives the new engine, for every action name,
\* the concatenation of e1's, ..., en's rules for it (so no name that no
\* input has, and an empty table for no input), and leaves the table of
\* every input unchanged.
CombineConcatenates ==
    [][last'.op = "combine" =>
        /\ \A action \in Names :
              abilities'["c"][action]
                  = ConcatenationOf(abilities, last'.inputs, action)
        /\ \A e \in Engines \ {"c"} : abilities'[e] = abilities[e]
        /\ last'.inputs = <<>> => abilities'["c"] = EmptyAbilities
        /\ factory'["c"] = "default"]_vars

\* combine(e1, e2) was called on two engines with different rules for the
\* same action
CombineWitness ==
    /\ last.op = "combine"
    /\ last.inputs = <<"e1", "e2">>
    /\ Len(abilities["e1"]["read"]) = 2
    /\ Len(abilities["e2"]["read"]) = 1
    /\ abilities["e1"]["read"][1] # abilities["e2"]["read"][1]
    /\ abilities["e1"]["read"][2] = abilities["e2"]["read"][1]
    /\ abilities["c"]["read"]
         = abilities["e1"]["read"] \o abilities["e2"]["read"]
    /\ abilities["c"]["manage"] = abilities["e2"]["manage"]
    /\ abilities["e2"]["manage"] # <<>>

---------------------------------------------------------------------------
(* C10: allow and deny with the actions left out                           *)

\* C10: called with a callable predicate and the actions omitted, allow
\* and deny return a builder bound to the predicate and to the same kind
\* and leave the table as it is, whatever the condition argument is.
BuilderWheneverActionsOmitted ==
    [][/\ last'.op \in {"allow", "deny"}
       /\ last'.predicate \in Predicates
       /\ last'.actions = "omitted"
       => /\ last'.out = "fluent"
          /\ builder' = fluent(last'.engine, last'.predicate, last'.op)
          /\ abilities' = abilities]_vars

\* the call with actions and condition both omitted, and the call with the
\* actions omitted and a condition given
ActionsOmitted ==
    \A kind \in {"allow", "deny"}, predicate \in Predicates :
        /\ LET r == allowOrDeny(kind, "e1", Table, predicate, NoActions, Omitted)
           IN  /\ r.out = "fluent"
               /\ r.fluent = fluent("e1", predicate, kind)
               /\ r.abilities = Table
        /\ \A condition \in ConditionArgs \ {Omitted} :
            LET r == allowOrDeny(kind, "e1", Table, predicate, NoActions, condition)
            IN  /\ r.out = "this"
                /\ r.abilities =
                     [Table EXCEPT !["undefined"] =
                         Append(@, TestClosure(kind, predicate, condition))]

\* C10 amended: with the actions and the condition both omitted the call
\* returns a builder bound to the predicate and to the same kind and leaves
\* the table as it is; with the actions omitted and a condition given it
\* returns the engine and appends a rule under the name "undefined".
BuilderWhenOnlyPredicate ==
    /\ []ActionsOmitted
    /\ [][last'.op \in {"allow", "deny"} /\ last'.out = "fluent" =>
            /\ abilities' = abilities
            /\ builder' = fluent(last'.engine, last'.predicate, last'.op)
            /\ last'.predicate \in Predicates]_vars

\* deny(aUser) returned a builder on an engine that has rules
BuilderWitness ==
    /\ last.op = "deny"
    /\ last.out = "fluent"
    /\ builder = fluent("e1", "aUser", "deny")
    /\ Size(Table) > 0

---------------------------------------------------------------------------
(* C11: a predicate that is no function                                    *)

\* every actions argument: a name, a list, or none
AllActionArgs == ActionArgs \cup {NoActions}

\* allow and deny given a predicate that is no function, with every
\* actions and condition argument
PredicateIsChecked ==
    \A kind \in {"allow", "deny"}, actions \in AllActionArgs,
       condition \in ConditionArgs :
        LET r == allowOrDeny(kind, "e1", Table, NotCallable, actions, condition)
        IN  /\ r.out = "TypeError"
            /\ r.abilities = Table
            /\ r.fluent = NoBuilder

\* C11: allow and deny called with a predicate that is not callable throw
\* the invalid-argument error (a TypeError) for every combination of the
\* actions and condition arguments, leave the ability table unchanged and
\* return no builder.
NonCallablePredicateRejected ==
    /\ []PredicateIsChecked
    /\ [][last'.op \in {"allow", "deny"} /\ last'.predicate = NotCallable =>
            /\ last'.out = "TypeError"
            /\ abilities' = abilities
            /\ builder' = builder]_vars

\* deny was called with a predicate that is no function on an engine that
\* has rules
NonCallablePredicateWitness ==
    /\ last.op = "deny"
    /\ last.predicate = NotCallable
    /\ last.out = "TypeError"
    /\ Size(Table) > 0

---------------------------------------------------------------------------
(* C12: a condition that is no function                                    *)

\* direct allow and deny given a condition that is present and no function
\* throw and store no rule
DirectRejectsCondition ==
    \A kind \in {"allow", "deny"}, predicate \in Predicates,
       actions \in AllActionArgs :
        LET r == allowOrDeny(kind, "e1", Table, predicate, actions, NotCallable)
        IN  /\ r.out \in {"TypeError", "Error"}
            /\ r.abilities = Table

\* on given a condition that is no function, on a builder whose to was
\* called, throws and stores no rule
OnRejectsCondition ==
    \A kind \in {"allow", "deny"}, predicate \in Predicates, l \in Lists :
        LET r == on(to(fluent("e1", predicate, kind), l).builder, Table,
                    NotCallable)
        IN  /\ r.out = "Error"
            /\ r.abilities = Table

\* can and cannot return a boolean for every query
CanNeverFails ==
    \A actor \in Actors, target \in Targets, actions \in ActionArgs :
        /\ can(Table, actor, actions, target) \in {"true", "false"}
        /\ cannot(Table, actor, actions, target) \in {"true", "false"}

\* C12: a condition that is present and not callable is rejected when the
\* rule is registered, by direct allow and deny and by on, and no rule is
\* stored, so that can and cannot return a boolean on every table.
ConditionRejectedAtRegistration ==
    /\ DirectRejectsCondition
    /\ OnRejectsCondition
    /\ CanNeverFails

\* what the code does: the direct call stores the rule with the condition
\* as it is, and can throws once a query reaches that rule with an actor
\* the predicate accepts
ConditionStoredByDirectCall ==
    /\ OnRejectsCondition
    /\ \A kind \in {"allow", "deny"}, predicate \in Predicates :
        LET r == allowOrDeny(kind, "e1", Table, predicate, ActionName("read"),
                             NotCallable)
        IN  /\ r.out = "this"
            /\ r.abilities =
                 [Table EXCEPT !["read"] =
                     Append(@, TestClosure(kind, predicate, NotCallable))]
    /\ \A actor \in Actors, target \in Targets, actions \in ActionArgs :
        can(Table, actor, actions, target) = "TypeError" => ~AllCallable(Table)

---------------------------------------------------------------------------
(* C13: the order of the builder's steps                                   *)

\* One step on the builder the caller holds.  failing tells of which
\* failing on/anything calls the table is claimed to stay as it was.
StepOrder(failing) ==
    /\ last'.op = "to" =>
          /\ ~builder.called => last'.out = "ender"
          /\ builder.called => last'.out = "Error" /\ builder' = builder
          /\ abilities' = abilities
    /\ last'.op \in {"on", "anything"} =>
          /\ ~builder.called => last'.out # "this" /\ abilities' = abilities
          /\ builder.finished => last'.out = "Error" /\ abilities' = abilities
          /\ last'.out # "this" /\ builder.actions \in failing
                => abilities' = abilities
          /\ abilities' # abilities => ~builder.finished /\ builder'.finished
    /\ last'.op \in {"to", "on", "anything"} =>
          /\ builder.called => builder'.called
          /\ builder.finished => builder'.finished

\* C13: to succeeds on its first call only (a second to throws); on and
\* anything take effect only after to; once on or anything has run, every
\* further on or anything throws; every failing call leaves the ability
\* table unchanged, so one builder registers at most once.
BuilderStepOrder ==
    [][StepOrder(FluentLists)]_vars

\* the same, the failing calls being those whose action names are no
\* members of Object.prototype
BuilderStepOrderOwnNames ==
    [][StepOrder({l \in FluentLists :
                     \A k \in 1..Len(l) : l[k] \in RuleNames})]_vars

---------------------------------------------------------------------------
(* C14: the fluent chain and the direct call                               *)

\* engine.allow(p).to(...l).on(c) and engine.allow(p).to(...l).anything()
\* (or deny), run on a table
ChainOn(kind, predicate, l, condition, abilitiesOf) ==
    on(to(fluent("e1", predicate, kind), l).builder, abilitiesOf, condition)

ChainAnything(kind, predicate, l, abilitiesOf) ==
    anything(to(fluent("e1", predicate, kind), l).builder, abilitiesOf)

\* The chain leaves the table the direct call leaves; returns tells what
\* the last step of the chain is claimed to return, given what the direct
\* call returned.
ChainAsDirect(returns(_)) ==
    \A kind \in {"allow", "deny"}, predicate \in Predicates,
       l \in FluentLists :
        /\ \A condition \in Conditions :
            LET chain == ChainOn(kind, predicate, l, condition, Table)
                direct == allowOrDeny(kind, "e1", Table, predicate,
                                      ActionList(l), condition)
            IN  /\ chain.abilities = direct.abilities
                /\ chain.out = returns(direct.out)
        /\ LET chain == ChainAnything(kind, predicate, l, Table)
               direct == allowOrDeny(kind, "e1", Table, predicate,
                                     ActionList(l), Omitted)
           IN  /\ chain.abilities = direct.abilities
               /\ chain.out = returns(direct.out)

\* the last step of a chain as it is called: its effect is that of the
\* direct call with the builder's predicate and actions
LastStepAsDirect(returns(_)) ==
    /\ builder.called /\ ~builder.finished /\ last'.op = "anything" =>
          LET direct == allowOrDeny(builder.kind, builder.engine,
                                    abilities[builder.engine],
                                    builder.predicate,
                                    ActionList(builder.actions), Omitted)
          IN  /\ abilities'[builder.engine] = direct.abilities
              /\ last'.out = returns(direct.out)
    /\ builder.called /\ ~builder.finished /\ last'.op = "on"
          /\ last'.out # "Error" =>
          \E condition \in Conditions :
              LET direct == allowOrDeny(builder.kind, builder.engine,
                                        abilities[builder.engine],
                                        builder.predicate,
                                        ActionList(builder.actions), condition)
              IN  /\ abilities'[builder.engine] = direct.abilities
                  /\ last'.out = returns(direct.out)

TheEngine(out) == "this"
TheSame(out) == out

ChainReturnsEngine == ChainAsDirect(TheEngine)
ChainReturnsAsDirect == ChainAsDirect(TheSame)

\* C14: for a callable predicate, action names a1..an and a callable
\* condition c, allow(p).to(a1, ..., an).on(c) leaves the table as
\* allow(p, [a1, ..., an], c) does and allow(p).to(a1, ..., an).anything()
\* as allow(p, [a1, ..., an]) does, the same for deny, and the last step of
\* the chain returns the engine.
FluentEqualsDirect ==
    /\ []ChainReturnsEngine
    /\ [][LastStepAsDirect(TheEngine)]_vars

\* the same, the last step returning the engine where the direct call
\* returns it and throwing what the direct call throws
FluentEqualsDirectOutcome ==
    /\ []ChainReturnsAsDirect
    /\ [][LastStepAsDirect(TheSame)]_vars

---------------------------------------------------------------------------
(* C15: what a direct registration appends                                 *)

\* how many times the name occurs in the list
Occurrences(n, l) == Cardinality({k \in 1..Len(l) : l[k] = n})

\* n copies of a rule
Copies(test, n) == [k \in 1..n |-> test]

\* the table with one copy of the rule appended per occurrence of a name
Appended(abilitiesOf, l, test) ==
    [n \in Names |-> abilitiesOf[n] \o Copies(test, Occurrences(n, l))]

\* the rule grants (allow) or revokes (deny) exactly for the actors the
\* predicate accepts and the targets the condition accepts
MatchesExactlyWhen(test, kind, predicate, condition) ==
    \A actor \in Actors, target \in Targets :
        CallTest(test, actor, target) =
            IF CallPredicate(predicate, actor)
                /\ (condition = Omitted \/ CallCondition(condition, target, actor))
            THEN (IF kind = "allow" THEN "true" ELSE "Deny")
            ELSE "false"

\* every direct call that succeeds, with a name or a list and a condition
\* that is a function or is omitted
DirectAppends ==
    \A kind \in {"allow", "deny"}, predicate \in Predicates,
       actions \in ActionArgs, condition \in Conditions \cup {Omitted} :
        LET r == allowOrDeny(kind, "e1", Table, predicate, actions, condition)
            l == ConcatActions(actions)
        IN  r.out = "this" =>
              \E test \in {TestClosure(kind, predicate,
                                       ConditionOrDefault(condition))} :
                  /\ r.abilities = Appended(Table, l, test)
                  /\ test.kind = kind
                  /\ MatchesExactlyWhen(test, kind, predicate, condition)
                  /\ \A n \in Names :
                        Occurrences(n, l) = 0 => r.abilities[n] = Table[n]
                  /\ r.fluent = NoBuilder

\* C15: a successful allow(p, A, c) or deny(p, A, c), A a name or a list
\* of names, appends one rule per occurrence of a name in A to the end of
\* that name's sequence, the rule granting (allow) or revoking (deny)
\* exactly when p(actor) and c(target, actor) hold (c always true when
\* omitted), leaves the sequences of the other names unchanged and
\* returns the engine.
RegistrationAppends ==
    /\ []DirectAppends
    /\ [][last'.op \in {"allow", "deny"} /\ last'.out = "this" =>
            /\ builder' = builder
            /\ \E actions \in ActionArgs, condition \in ConditionArgs :
                  /\ actions.kind = last'.actions
                  /\ abilities'[last'.engine] =
                       Appended(abilities[last'.engine], ConcatActions(actions),
                                TestClosure(last'.op, last'.predicate,
                                            ConditionOrDefault(condition)))]_vars

\* deny returned the engine after appending a rule behind a different one
RegistrationWitness ==
    /\ last.op = "deny"
    /\ last.out = "this"
    /\ last.actions = "list"
    /\ Len(Table["read"]) = 2
    /\ Table["read"][1].kind = "allow"
    /\ Table["read"][2].kind = "deny"
    /\ Table["manage"] = <<>>

---------------------------------------------------------------------------
(* C16: the table is append-only                                           *)

IsPrefix(s, t) == Len(s) <= Len(t) /\ SubSeq(t, 1, Len(s)) = s

\* the engine combine returns is a new one: its table is not a later
\* state of the table of an engine that existed before
NewEngine(e) == last'.op = "combine" /\ e = "c"

\* every sequence of every engine only grows at its end
OnlyGrows ==
    \A e \in Engines : NewEngine(e) \/
        \A n \in Names : IsPrefix(abilities[e][n], abilities'[e][n])

\* a table changes only in a call of allow, deny, on or anything made on
\* its engine, with one of the outcomes given
ChangesOnlyIn(outcomes) ==
    \A e \in Engines : NewEngine(e) \/
        (abilities'[e] # abilities[e] =>
            /\ last'.op \in {"allow", "deny", "on", "anything"}
            /\ last'.engine = e
            /\ last'.out \in outcomes)

\* C16: across every operation each action's sequence before the step is
\* a prefix of its sequence after the step, and the table changes only in
\* a successful registration (a direct allow or deny, or the last step of
\* a builder chain); every other operation, a failing call included,
\* leaves it unchanged.
AppendOnly ==
    [][OnlyGrows /\ ChangesOnlyIn({"this"})]_vars

\* what the code does: the sequences only grow, and a table changes only
\* in a registration call, which may have thrown after its first pushes
AppendOnlyByRegistrationCalls ==
    [][OnlyGrows /\ ChangesOnlyIn({"this", "TypeError"})]_vars

---------------------------------------------------------------------------
(* C17: registering the same rule again                                    *)

\* the two tables give every query the same verdict
SameVerdicts(abilitiesOf, other) ==
    \A actor \in Actors, target \in Targets, actions \in ActionArgs :
        can(abilitiesOf, actor, actions, target)
            = can(other, actor, actions, target)

\* the condition argument a stored rule was registered with
ConditionArgOf(test) ==
    IF test.condition = Always THEN Omitted ELSE test.condition

\* for every rule of the table, wherever it stands: registering it again
\* under its name changes no verdict
RepeatChangesNothing ==
    \A n \in RuleNames : \A i \in 1..Len(Table[n]) :
        LET test == Table[n][i]
            r == allowOrDeny(test.kind, "e1", Table, test.predicate,
                             ActionName(n), ConditionArgOf(test))
        IN  /\ r.out = "this"
            /\ r.abilities = [Table EXCEPT ![n] = Append(@, test)]
            /\ SameVerdicts(Table, r.abilities)

\* C17: registering again a rule identical to one already in the table
\* (same predicate, condition, effect and action name, a specific name or
\* "manage") changes the result of can for no actor, action list and
\* target, whatever was registered between the two.
RepeatedRegistrationIdempotent ==
    /\ []RepeatChangesNothing
    /\ [][/\ last'.op \in {"allow", "deny"}
          /\ \E n \in RuleNames :
                /\ Len(abilities'["e1"][n]) = Len(abilities["e1"][n]) + 1
                /\ \E i \in 1..Len(abilities["e1"][n]) :
                      abilities'["e1"] =
                          [abilities["e1"] EXCEPT
                              ![n] = Append(@, abilities["e1"][n][i])]
          => SameVerdicts(abilities["e1"], abilities'["e1"])]_vars

\* allow registered a second time a rule the table already had
RepeatedRegistrationWitness ==
    /\ last.op = "allow"
    /\ last.out = "this"
    /\ last.actions = "name"
    /\ Len(Table["manage"]) = 2
    /\ Table["manage"][1] = Table["manage"][2]
    /\ Table["manage"][1].condition = "publishedProducts"

---------------------------------------------------------------------------
(* C18: the closed form of the fold                                        *)

\* the orders the tests can be put in
Permutations(tests) ==
    {[k \in 1..Len(tests) |-> tests[f[k]]] :
        f \in {g \in [1..Len(tests) -> 1..Len(tests)] :
                  \A a, b \in 1..Len(tests) : g[a] = g[b] => a = b}}

\* the verdict of can for one action, the candidate tests given
VerdictOf(tests, actor, target) ==
    LET pass == reduce(tests, "false", actor, target)
    IN  IF pass = "TypeError" THEN pass
        ELSE IF pass = "Deny" \/ ~Truthy(pass) THEN "false" ELSE "true"

\* can is true exactly when a Grant rule under x or "manage" matches and no
\* Revoke rule under x or "manage" does
ClosedForm(names) ==
    \A actor \in Actors, target \in Targets, x \in names :
        can(Table, actor, ActionName(x), target) = "true"
            <=> /\ HasMatching("allow", Table, x, actor, target)
                /\ ~HasMatching("deny", Table, x, actor, target)

\* every order of the candidate tests gives the verdict can gives
OrderIrrelevant(names) ==
    \A actor \in Actors, target \in Targets, x \in names :
        \A tests \in Permutations(TestsFor(Table, x)) :
            VerdictOf(tests, actor, target)
                = can(Table, actor, ActionName(x), target)

\* C18: for every table, actor, target and single action x,
\* can(actor, x, target) is true exactly when at least one Grant rule
\* under x or "manage" matches and no Revoke rule under x or "manage"
\* matches; so the verdict is the same for every permutation of the
\* candidate rules.
FoldClosedForm ==
    ClosedForm(Names) /\ OrderIrrelevant(Names)

\* the same for the names Object.prototype does not define, on the tables
\* whose conditions are all functions
FoldClosedFormOwnNames ==
    AllCallable(Table) => ClosedForm(RuleNames) /\ OrderIrrelevant(RuleNames)

\* the closed form for every name, Object.prototype's included, on the
\* tables whose conditions are all functions
ClosedFormEveryName ==
    AllCallable(Table) => ClosedForm(Names)

\* the closed form for the names Object.prototype does not define, on
\* every table
ClosedFormEveryTable == ClosedForm(RuleNames)

---------------------------------------------------------------------------
(* C19: registration is monotone                                           *)

\* the queries that name no member of Object.prototype
OwnNameArgs ==
    {a \in ActionArgs :
        \A k \in 1..Len(ConcatActions(a)) : ConcatActions(a)[k] \in RuleNames}

\* the triples can permits
Permitted(abilitiesOf, queries) ==
    {q \in Actors \X queries \X Targets :
        can(abilitiesOf, q[1], q[2], q[3]) = "true"}

\* the triples can refuses
Refused(abilitiesOf, queries) ==
    {q \in Actors \X queries \X Targets :
        can(abilitiesOf, q[1], q[2], q[3]) = "false"}

\* whatever is registered on the table: a deny makes no refused query
\* permitted and an allow makes no permitted query refused
Monotone(queries) ==
    \A predicate \in Predicates, actions \in ActionArgs,
       condition \in ConditionArgs :
        LET denied == deny("e1", Table, predicate, actions, condition).abilities
            allowed == allow("e1", Table, predicate, actions, condition).abilities
        IN  /\ Refused(Table, queries) \cap Permitted(denied, queries) = {}
            /\ Permitted(Table, queries) \cap Refused(allowed, queries) = {}

\* a step of deny permits nothing that was not permitted, a step of allow
\* refuses nothing that was not refused
MonotoneStep(queries) ==
    /\ last'.op = "deny" =>
          Permitted(abilities'["e1"], queries)
              \subseteq Permitted(abilities["e1"], queries)
    /\ last'.op = "allow" =>
          Refused(abilities'["e1"], queries)
              \subseteq Refused(abilities["e1"], queries)

MonotoneEveryQuery == Monotone(ActionArgs)
MonotoneOwnNames == Monotone(OwnNameArgs)

\* C19: a deny registration never turns a verdict of can from false to
\* true and an allow registration never turns one from true to false, for
\* every table, actor, action list and target; along deny registrations
\* the set of permitted triples never grows.
RegistrationMonotone ==
    /\ []MonotoneEveryQuery
    /\ [][MonotoneStep(ActionArgs)]_vars

\* the same for the queries that name no member of Object.prototype
RegistrationMonotoneOwnNames ==
    /\ []MonotoneOwnNames
    /\ [][MonotoneStep(OwnNameArgs)]_vars

---------------------------------------------------------------------------
(* C20: the engines are isolated after combine                             *)

\* no two engines hold one and the same array
NoSharedArray == aliases = {}

\* a registration on one engine changes the table of no other
RegistrationIsLocal ==
    [][last'.op \in {"allow", "deny"} =>
          \A e \in Engines \ {last'.engine} : abilities'[e] = abilities[e]]_vars

---------------------------------------------------------------------------
(* C21: a failed on uses the builder up                                    *)

\* on with a condition that is no function, after to, and every call on
\* the same builder after it
FailedOnFinishes ==
    \A kind \in {"allow", "deny"}, predicate \in Predicates,
       l \in FluentLists :
        LET failed == on(to(fluent("e1", predicate, kind), l).builder, Table,
                         NotCallable)
        IN  /\ failed.out = "Error"
            /\ failed.abilities = Table
            /\ failed.builder.finished
            /\ \A condition \in ConditionArgs :
                LET again == on(failed.builder, Table, condition)
                IN  again.out = "Error" /\ again.abilities = Table
            /\ LET again == anything(failed.builder, Table)
               IN  again.out = "Error" /\ again.abilities = Table

\* C21: on called after to with a condition that is not callable fails
\* and leaves the ability table unchanged, but the builder is finished all
\* the same: every later on, also with a valid condition, and every later
\* anything on that builder throws the invalid-state error and registers
\* nothing.
FailedOnConsumesBuilder ==
    /\ []FailedOnFinishes
    /\ [][/\ last'.op = "on" /\ last'.out = "Error"
             /\ builder.called /\ ~builder.finished
             => builder'.finished /\ abilities' = abilities
          /\ last'.op \in {"on", "anything"} /\ builder.finished
             => /\ last'.out = "Error"
                /\ abilities' = abilities
                /\ builder' = builder]_vars

\* anything was refused on a builder that to('read') was called on while
\* the engine has no rule at all: what finished the builder stored nothing,
\* so it was an on that failed
FailedOnWitness ==
    /\ last.op = "anything"
    /\ last.out = "Error"
    /\ builder.called
    /\ builder.finished
    /\ builder.actions = <<"read">>
    /\ Table = EmptyAbilities

=============================================================================
